---- MODULE Spec2Model ----
(***************************************************************************)
(* State-machine model of src/src/hello_server/server.py: the in-memory    *)
(* task store, the time-entry store and the handlers that mutate them      *)
(* (create_task, update_task, delete_task, start_timer, stop_timer,        *)
(* log_time).                                                              *)
(*                                                                         *)
(* Every handler is written once, as a sequence of steps over a call frame *)
(* (Step).  Spec runs each call to completion in one transition (handlers  *)
(* executed one at a time); SpecConc runs two callers whose steps          *)
(* interleave, which is what the handlers allow since they take no lock.   *)
(*                                                                         *)
(* Representation:                                                         *)
(*   - identifiers (uuid4 strings) are fresh integers 1, 2, ...            *)
(*   - a datetime is [secs, aware]: seconds since 2024-01-01T00:00:00 and  *)
(*     whether it carries a UTC offset                                     *)
(*   - Optional[X] is <<>> (None) or <<x>>                                 *)
(*   - actual_hours is kept exactly, in units of 1/3600 hour               *)
(***************************************************************************)
EXTENDS Integers, Sequences, FiniteSets, TLC

\* ------------------------------------------------------------------ bounds
MaxTasks == 2
MaxEntries == 2
MaxTicks == 2
MaxProjects == 1

\* -------------------------------------------------------------- input sets
\* The clock is read in steps of 45 seconds.
Deltas == {45}
Titles == {"Write spec"}
DueDateArgs == {<<>>, <<"not-a-date">>}
StartTimeArgs == {<<>>, <<"2024-01-01T09:00:00Z">>, <<"not-a-date">>}
DurationArgs == {-5, 45}
ActualHoursArgs == {<<>>, <<3600>>}
TitleArgs == {<<>>}
ProjectNames == {"Launch"}
\* Strings that are no ISO-8601 timestamp.
MalformedArgs == {<<"">>, <<"not-a-date">>}
\* Arguments of create_task and list_tasks where tasks are listed.
PriorityArgs == {<<>>, <<"high">>}
StatusArgs == {<<>>, <<"completed">>}
CategoryArgs == {<<>>, <<"work">>}
AssigneeArgs == {<<>>, <<"">>, <<"alice">>}
NewAssigneeArgs == {<<>>, <<"alice">>}
ProjectIdArgs == {<<>>, <<"P1">>}
ListDueDateArgs == {<<>>, <<"2024-01-01T09:00:00">>, <<"2024-01-03T09:00:00">>,
                    <<"2024-01-01T09:00:00Z">>}
LimitArgs == {-1, 0, 1, 20}
\* Arguments of create_task, log_time and get_time_analytics where time is
\* analysed.
TrackedCategories == {<<"work">>, <<"personal">>}
LoggedDurations == {-30, 30, 120, 480}
LoggedStartTimes == {<<>>, <<"2024-01-01T09:00:00">>, <<"2024-01-01T09:00:00Z">>}
DaysArgs == {0, 1, 7}
\* session_config.work_hours_per_day, in whole hours
WorkHoursArgs == {0, 8}
Procs == {1, 2}

\* ---------------------------------------------------------------- optional
None == <<>>
Some(v) == <<v>>
Val(o) == o[1]
\* Python truthiness of an Optional value: None, 0 (0.0) and "" are falsy.  An
\* identifier passed by a caller is None or one of the non-empty uuid strings.
TruthyNum(o) == o # None /\ Val(o) # 0
TruthyStr(o) == o # None /\ Val(o) # ""
TruthyId(o) == o # None

Min(S) == CHOOSE m \in S : \A k \in S : m <= k

\* ---------------------------------------------------------------- datetime
Naive(s) == [secs |-> s, aware |-> FALSE]
\* datetime + timedelta(minutes = m)
PlusMinutes(dt, m) == [dt EXCEPT !.secs = @ + 60 * m]
\* datetime.fromisoformat(s.replace('Z', '+00:00')): the parsed value, or
\* ValueError for text that is no ISO-8601 timestamp.
FromIsoFormat(s) ==
  CASE s = "2024-01-01T09:00:00Z" -> [ok |-> TRUE, dt |-> [secs |-> 32400, aware |-> TRUE]]
    [] s = "2024-01-01T09:00:00"  -> [ok |-> TRUE, dt |-> [secs |-> 32400, aware |-> FALSE]]
    [] s = "2024-01-03T09:00:00"  -> [ok |-> TRUE, dt |-> [secs |-> 205200, aware |-> FALSE]]
    [] OTHER                      -> [ok |-> FALSE, dt |-> Naive(0)]
\* datetime.max (9999-12-31T23:59:59.999999, naive): later than every other
\* datetime; it is given the greatest number of seconds the model can hold.
datetime_max == Naive(2147483647)
\* dt.strftime('%H:%M'): the hour and minute of the day, as minutes since
\* midnight.
strftime_HM(dt) == (dt.secs % (24 * 3600)) \div 60
\* Faulty variant of TruncMinutes: rounds to the nearest minute.
RoundMinutes(secs) == (2 * secs + 60) \div 120
\* int(x / 60) for an integer number of seconds x: truncation toward zero.
TruncMinutes(secs) == IF secs >= 0 THEN secs \div 60 ELSE -((-secs) \div 60)

VARIABLES
  tasks_storage,          \* task id -> Task
  time_entries_storage,   \* time entry id -> TimeEntry
  task_uuid,              \* number of task ids issued so far
  entry_uuid,             \* number of time entry ids issued so far
  projects_storage,       \* project id -> Project
  project_uuid,           \* number of project ids issued so far
  detached,               \* TimeEntry objects popped from the store but still referenced by a running call
  now,                    \* what datetime.now() returns, in seconds
  frames                  \* per caller: the call in progress

vars == <<tasks_storage, time_entries_storage, task_uuid, entry_uuid, projects_storage,
          project_uuid, detached, now, frames>>

\* --------------------------------------------------------------- the store
\* The module-level dictionaries and the uuid4 source, as one value.
Store == [tasks |-> tasks_storage, entries |-> time_entries_storage,
          task_uuid |-> task_uuid, entry_uuid |-> entry_uuid,
          projects |-> projects_storage, project_uuid |-> project_uuid, detached |-> detached]

\* A new Task: status is TaskStatus.TODO, actual_hours None, updated_at now.
Task(id, title, priority, category, due_date, project_id, assignee, t) ==
  [id |-> id, title |-> title, priority |-> priority, status |-> "todo",
   category |-> category, due_date |-> due_date, actual_hours |-> None,
   assignee |-> assignee, project_id |-> project_id, updated_at |-> Naive(t)]

Project(id, name) == [id |-> id, name |-> name, status |-> "active"]

\* ConfigSchema: the defaults of a session's configuration.
default_priority == "medium"
default_category == "other"
default_work_hours_per_day == 8

TimeEntry(id, task_id, start_time, end_time, duration_minutes) ==
  [id |-> id, task_id |-> task_id, start_time |-> start_time, end_time |-> end_time,
   duration_minutes |-> duration_minutes]

\* {}
EmptyDict == [k \in {} |-> k]
\* dict without one key / with one more key
Pop(d, k) == [x \in DOMAIN d \ {k} |-> d[x]]
Put(d, k, v) == [x \in DOMAIN d \cup {k} |-> IF x = k THEN v ELSE d[x]]

\* A TimeEntry object a call holds a reference to: the stored one, or the one
\* that was popped from the store after the call looked it up.
Obj(S, id) == IF id \in DOMAIN S.entries THEN S.entries[id] ELSE S.detached[id]
SetObj(S, id, o) ==
  IF id \in DOMAIN S.entries THEN [S EXCEPT !.entries[id] = o]
  ELSE [S EXCEPT !.detached[id] = o]

\* for entry in time_entries_storage.values(): if entry.task_id == task_id and
\* entry.end_time is None: ...; break.  A dict iterates in insertion order,
\* which is the order in which the ids were issued.
ActiveEntry(S, task_id) ==
  LET open == {id \in DOMAIN S.entries :
                 S.entries[id].task_id = task_id /\ S.entries[id].end_time = None}
  IN IF open = {} THEN None ELSE Some(Min(open))

\* ------------------------------------------------------------- call frames
Locals == [entry |-> None, parsed |-> Naive(0), duration |-> 0, to_remove |-> {}]
NoResponse == [op |-> "none", out |-> "none", task_id |-> None, entry_id |-> None,
               removed |-> 0, at |-> None]
IdleFrame == [op |-> "none", pc |-> "idle", args |-> [task_id |-> None], loc |-> Locals,
              ret |-> NoResponse]
Frame(op, pc, args) == [op |-> op, pc |-> pc, args |-> args, loc |-> Locals, ret |-> NoResponse]

\* What a call hands back: which outcome, the task and time entry it names, the
\* count and the timestamp it reports.
Response(F, out, task_id, entry_id, n, at) ==
  [op |-> F.op, out |-> out, task_id |-> task_id, entry_id |-> entry_id,
   removed |-> n, at |-> at]
Return(S, F, r) == [S |-> S, F |-> [F EXCEPT !.pc = "done", !.ret = r]]
Goto(S, F, pc) == [S |-> S, F |-> [F EXCEPT !.pc = pc]]
\* An exception that no handler catches ends the call.
Raise(S, F, exc) == Return(S, F, Response(F, exc, None, F.loc.entry, 0, None))
\* The model's supply of fresh ids is used up: the step cannot be taken.
Blocked(S, F) == Goto(S, F, "blocked")

\* ------------------------------------------------------------- create_task
\* args: title, priority, category, due_date, project_id, assignee (each
\* Optional except title)
create_task_step(S, F, t) ==
  LET due == F.args.due_date
      parsed == FromIsoFormat(Val(due))
      id == S.task_uuid + 1
      task_priority == IF F.args.priority # None THEN Val(F.args.priority) ELSE default_priority
      task_category == IF F.args.category # None THEN Val(F.args.category) ELSE default_category
  IN IF TruthyStr(due) /\ ~parsed.ok
       THEN Return(S, F, Response(F, "invalid_date", None, None, 0, None))
     ELSE IF S.task_uuid >= MaxTasks THEN Blocked(S, F)
     ELSE Return([S EXCEPT !.task_uuid = id,
                           !.tasks = Put(@, id, Task(id, F.args.title, task_priority, task_category,
                                                     IF TruthyStr(due) THEN Some(parsed.dt) ELSE None,
                                                     F.args.project_id, F.args.assignee, t))],
                 F, Response(F, "created", Some(id), None, 0, None))

\* ------------------------------------------------------------- update_task
\* args: task_id, title, priority, status, category, due_date, actual_hours,
\* assignee (each Optional except task_id)
update_task_step(S, F, t) ==
  LET id == F.args.task_id
      Sa == IF F.args.title # None THEN [S EXCEPT !.tasks[id].title = Val(F.args.title)] ELSE S
      Sb == IF F.args.priority # None
              THEN [Sa EXCEPT !.tasks[id].priority = Val(F.args.priority)] ELSE Sa
      Sc == IF F.args.status # None THEN [Sb EXCEPT !.tasks[id].status = Val(F.args.status)] ELSE Sb
      S1 == IF F.args.category # None
              THEN [Sc EXCEPT !.tasks[id].category = Val(F.args.category)] ELSE Sc
      parsed == FromIsoFormat(Val(F.args.due_date))
      S2 == IF F.args.due_date # None THEN [S1 EXCEPT !.tasks[id].due_date = Some(parsed.dt)] ELSE S1
      S3 == IF F.args.actual_hours # None
              THEN [S2 EXCEPT !.tasks[id].actual_hours = F.args.actual_hours] ELSE S2
      Sd == IF F.args.assignee # None THEN [S3 EXCEPT !.tasks[id].assignee = F.args.assignee] ELSE S3
      S4 == [Sd EXCEPT !.tasks[id].updated_at = Naive(t)]
  IN IF id \notin DOMAIN S.tasks
       THEN Return(S, F, Response(F, "not_found", None, None, 0, None))
     ELSE IF F.args.due_date # None /\ ~parsed.ok
       THEN Return(S1, F, Response(F, "invalid_date", Some(id), None, 0, None))
     ELSE Return(S4, F, Response(F, "updated", Some(id), None, 0, None))

\* ---------------------------------------------------------- create_project
\* args: name; start_date and end_date are left out by the callers modelled.
create_project_step(S, F, t) ==
  LET id == S.project_uuid + 1
  IN IF S.project_uuid >= MaxProjects THEN Blocked(S, F)
     ELSE Return([S EXCEPT !.project_uuid = id,
                           !.projects = Put(@, id, Project(id, F.args.name))],
                 F, Response(F, "created", None, None, 0, None))

\* -------------------------------------------------------------- list_tasks
\* list(tasks_storage.values()): the tasks in insertion order, which is the
\* order in which their ids were issued.
RECURSIVE DictValues(_)
DictValues(d) ==
  IF DOMAIN d = {} THEN <<>>
  ELSE LET k == Min(DOMAIN d) IN <<d[k]>> \o DictValues(Pop(d, k))

\* The five filters, each applied "if <argument>:", that is when the argument
\* is truthy: an enum member always is, a str unless it is empty.  Each is
\* the list comprehension [t for t in tasks if t.<field> == <argument>].
list_tasks_filter(tasks, args) ==
  LET ByStatus(x) == x.status = Val(args.status)
      ByPriority(x) == x.priority = Val(args.priority)
      ByCategory(x) == x.category = Val(args.category)
      ByAssignee(x) == x.assignee = args.assignee
      ByProject(x) == x.project_id = args.project_id
      t1 == IF args.status # None THEN SelectSeq(tasks, ByStatus) ELSE tasks
      t2 == IF args.priority # None THEN SelectSeq(t1, ByPriority) ELSE t1
      t3 == IF args.category # None THEN SelectSeq(t2, ByCategory) ELSE t2
      t4 == IF TruthyStr(args.assignee) THEN SelectSeq(t3, ByAssignee) ELSE t3
  IN IF TruthyStr(args.project_id) THEN SelectSeq(t4, ByProject) ELSE t4

\* priority_order.get(t.priority, 0)
priority_order(priority) ==
  CASE priority = "urgent" -> 4
    [] priority = "high"   -> 3
    [] priority = "medium" -> 2
    [] priority = "low"    -> 1
    [] OTHER               -> 0

\* key = lambda t: (priority_order.get(t.priority, 0), t.due_date or datetime.max)
sort_key(task) ==
  [rank |-> priority_order(task.priority),
   due |-> IF task.due_date # None THEN Val(task.due_date) ELSE datetime_max]

\* Tuple comparison: the ranks decide unless they are equal, then the dates
\* are compared.  A naive and an offset-aware datetime are never equal and
\* their ordering raises TypeError.
KeyLess(a, b) == a.rank < b.rank \/ (a.rank = b.rank /\ a.due.secs < b.due.secs)
KeyUnorderable(a, b) == a.rank = b.rank /\ a.due.aware # b.due.aware

\* One element placed into a list that is in descending key order, behind
\* the elements whose key is not less than its own (the sort is stable).
RECURSIVE InsertDescending(_, _)
InsertDescending(sorted, x) ==
  IF sorted = <<>> THEN <<x>>
  ELSE IF KeyLess(sort_key(Head(sorted)), sort_key(x)) THEN <<x>> \o sorted
  ELSE <<Head(sorted)>> \o InsertDescending(Tail(sorted), x)

RECURSIVE SortDescending(_)
SortDescending(tasks) ==
  IF tasks = <<>> THEN <<>>
  ELSE InsertDescending(SortDescending(SubSeq(tasks, 1, Len(tasks) - 1)), tasks[Len(tasks)])

\* Faulty variant of list_tasks_sort: the list is left in insertion order.
list_tasks_sort_skipped(tasks) == [ok |-> TRUE, tasks |-> tasks]

\* tasks.sort(key = ..., reverse = True).  Two tasks of one rank whose dates
\* cannot be ordered have to be compared with each other by any sort, so the
\* call raises TypeError exactly when such a pair is in the list.
list_tasks_sort(tasks) ==
  IF \E i, j \in 1..Len(tasks) : KeyUnorderable(sort_key(tasks[i]), sort_key(tasks[j]))
    THEN [ok |-> FALSE, tasks |-> tasks]
  ELSE [ok |-> TRUE, tasks |-> SortDescending(tasks)]

\* tasks[:limit], a Python slice: a negative limit counts from the end.
list_tasks_limit(tasks, limit) ==
  LET n == Len(tasks)
      stop == IF limit >= 0 THEN (IF limit < n THEN limit ELSE n)
              ELSE (IF n + limit > 0 THEN n + limit ELSE 0)
  IN SubSeq(tasks, 1, stop)

\* The ids of the tasks of a list, in list order.
Ids(tasks) == [i \in 1..Len(tasks) |-> tasks[i].id]

\* What list_tasks hands back: the outcome and the tasks it prints, in order.
Listing(F, out, tasks) == [op |-> F.op, out |-> out, tasks |-> Ids(tasks)]

\* args: status, priority, category, assignee, project_id (each Optional), limit
list_tasks_step(S, F, t) ==
  LET selected == list_tasks_filter(DictValues(S.tasks), F.args)
      sorted == list_tasks_sort(selected)
      tasks == list_tasks_limit(sorted.tasks, F.args.limit)
  IN IF ~sorted.ok THEN Return(S, F, Listing(F, "TypeError", <<>>))
     ELSE IF tasks = <<>> THEN Return(S, F, Listing(F, "none_found", <<>>))
     ELSE Return(S, F, Listing(F, "listed", tasks))

\* ------------------------------------------------------ get_time_analytics
\* end_date - timedelta(days = days)
MinusDays(dt, days) == [dt EXCEPT !.secs = @ - days * 24 * 3600]

\* The loop that fills relevant_entries: the stored entries with
\* entry.start_time >= start_date and a truthy duration_minutes whose task is
\* stored and passes the category and project filters.  Comparing an
\* offset-aware start_time with the naive start_date raises TypeError.
collect_window(S, args, t) ==
  LET start_date == MinusDays(Naive(t), args.days)
      Passes(task) ==
        /\ (args.category # None => task.category = Val(args.category))
        /\ (TruthyStr(args.project_id) => task.project_id = args.project_id)
  IN [ok |-> \A e \in DOMAIN S.entries : ~S.entries[e].start_time.aware,
      entries |-> {e \in DOMAIN S.entries :
                     /\ S.entries[e].start_time.secs >= start_date.secs
                     /\ TruthyNum(S.entries[e].duration_minutes)
                     /\ S.entries[e].task_id \in DOMAIN S.tasks
                     /\ Passes(S.tasks[S.entries[e].task_id])}]

\* sum(entry.duration_minutes for entry in ...)
RECURSIVE SumMinutes(_, _)
SumMinutes(entries, ids) ==
  IF ids = {} THEN 0
  ELSE LET e == CHOOSE x \in ids : TRUE
       IN Val(entries[e].duration_minutes) + SumMinutes(entries, ids \ {e})

\* category_stats: minutes per category of the owning task
category_stats(S, ids) ==
  LET CategoryOf(e) == S.tasks[S.entries[e].task_id].category
  IN [c \in {CategoryOf(e) : e \in ids} |->
        SumMinutes(S.entries, {e \in ids : CategoryOf(e) = c})]

\* (minutes / total_minutes) * 100, kept exactly as a fraction
Percentage(minutes, total_minutes) == [num |-> 100 * minutes, den |-> total_minutes]

\* Faulty variant of productivity_ratio: the minutes are not converted to
\* hours.
productivity_ratio_of_minutes(total_minutes, days, work_hours_per_day) ==
  IF work_hours_per_day * days > 0
    THEN [num |-> 100 * total_minutes, den |-> work_hours_per_day * days]
  ELSE [num |-> 0, den |-> 1]

\* total_hours = total_minutes / 60; expected_hours = work_hours_per_day * days;
\* (total_hours / expected_hours) * 100 if expected_hours > 0 else 0, kept
\* exactly as a fraction
productivity_ratio(total_minutes, days, work_hours_per_day) ==
  IF work_hours_per_day * days > 0
    THEN [num |-> 100 * total_minutes, den |-> 60 * work_hours_per_day * days]
  ELSE [num |-> 0, den |-> 1]

\* f"{x:.1f}" for a fraction with a positive denominator: the nearest number
\* of tenths.
Format1f(x) == (20 * x.num + x.den) \div (2 * x.den)

\* What get_time_analytics hands back: the outcome, the entries it
\* aggregated, their total, the productivity ratio, the minutes and the
\* percentage per category.
Analytics(F, out, entries, total_minutes, ratio, stats, percentage) ==
  [op |-> F.op, out |-> out, entries |-> entries, total_minutes |-> total_minutes,
   productivity_ratio |-> ratio, category_stats |-> stats, percentage |-> percentage]

\* args: days (int), category, project_id (both Optional), and the session's
\* work_hours_per_day
get_time_analytics_step(S, F, t) ==
  LET window == collect_window(S, F.args, t)
      total_minutes == SumMinutes(S.entries, window.entries)
      stats == category_stats(S, window.entries)
      ratio == productivity_ratio(total_minutes, F.args.days, F.args.work_hours_per_day)
      NoRatio == [num |-> 0, den |-> 1]
  IN IF ~window.ok
       THEN Return(S, F, Analytics(F, "TypeError", {}, 0, NoRatio, EmptyDict, EmptyDict))
     ELSE IF window.entries = {}
       THEN Return(S, F, Analytics(F, "none_found", {}, 0, NoRatio, EmptyDict, EmptyDict))
     \* f"{total_hours/days:.1f}"
     ELSE IF F.args.days = 0
       THEN Return(S, F, Analytics(F, "ZeroDivisionError", window.entries, total_minutes, ratio,
                                   stats, EmptyDict))
     \* percentage = (minutes / total_minutes) * 100
     ELSE IF total_minutes = 0
       THEN Return(S, F, Analytics(F, "ZeroDivisionError", window.entries, total_minutes, ratio,
                                   stats, EmptyDict))
     ELSE Return(S, F, Analytics(F, "report", window.entries, total_minutes, ratio, stats,
                                 [c \in DOMAIN stats |-> Percentage(stats[c], total_minutes)]))

\* ------------------------------------------------------------- delete_task
\* if task_id not in tasks_storage: return not found
delete_task_check(S, F, t) ==
  IF F.args.task_id \notin DOMAIN S.tasks
    THEN Return(S, F, Response(F, "not_found", None, None, 0, None))
  ELSE Goto(S, F, "dl_pop")

\* task = tasks_storage.pop(task_id)
delete_task_pop(S, F, t) ==
  IF F.args.task_id \notin DOMAIN S.tasks THEN Raise(S, F, "KeyError")
  ELSE Goto([S EXCEPT !.tasks = Pop(@, F.args.task_id)], F, "dl_collect")

\* Faulty variant of delete_task_collect: collects the entries of every task.
delete_task_collect_all(S, F, t) ==
  Goto(S, [F EXCEPT !.loc.to_remove = DOMAIN S.entries], "dl_remove")

\* entries_to_remove = [entry_id for entry_id, entry in ... if entry.task_id == task_id]
delete_task_collect(S, F, t) ==
  Goto(S, [F EXCEPT !.loc.to_remove =
             {id \in DOMAIN S.entries : S.entries[id].task_id = F.args.task_id}],
       "dl_remove")

\* Faulty variant of delete_task_remove: reports the count without popping.
delete_task_remove_nothing(S, F, t) ==
  Return(S, F, Response(F, "deleted", Some(F.args.task_id), None,
                        Cardinality(F.loc.to_remove), None))

\* for entry_id in entries_to_remove: time_entries_storage.pop(entry_id)
\* The pops run in list order; a key that is gone raises KeyError at that pop.
delete_task_remove(S, F, t) ==
  LET gone == F.loc.to_remove \ DOMAIN S.entries
      popped == IF gone = {} THEN F.loc.to_remove
                ELSE {id \in F.loc.to_remove : id < Min(gone)}
      S1 == [S EXCEPT !.entries = [id \in DOMAIN S.entries \ popped |-> S.entries[id]],
                      !.detached = [id \in DOMAIN S.detached \cup popped |->
                                      IF id \in popped THEN S.entries[id] ELSE S.detached[id]]]
  IN IF gone # {} THEN Raise(S1, F, "KeyError")
     ELSE Return(S1, F, Response(F, "deleted", Some(F.args.task_id), None,
                                 Cardinality(F.loc.to_remove), None))

\* ------------------------------------------------------------- start_timer
\* Faulty variant of start_timer_check: the task is not looked up.
start_timer_check_skipped(S, F, t) == Goto(S, F, "st_scan")

\* if task_id not in tasks_storage: return not found
start_timer_check(S, F, t) ==
  IF F.args.task_id \notin DOMAIN S.tasks
    THEN Return(S, F, Response(F, "not_found", None, None, 0, None))
  ELSE Goto(S, F, "st_scan")

\* Faulty variant of start_timer_scan: no scan for an open entry.
start_timer_scan_skipped(S, F, t) == Goto(S, F, "st_insert")

\* Faulty variant of start_timer_scan: a running timer is restarted.
start_timer_scan_restarts(S, F, t) ==
  LET active_entry == ActiveEntry(S, F.args.task_id)
  IN IF active_entry = None THEN Goto(S, F, "st_insert")
     ELSE Return([S EXCEPT !.entries[Val(active_entry)].start_time = Naive(t)], F,
                 Response(F, "already_running", Some(F.args.task_id), active_entry, 0,
                          Some(strftime_HM(Naive(t)))))

\* the scan for an open entry of the task, and the "already running" return,
\* which reads tasks_storage[task_id].title and reports the entry's start_time
\* as '%H:%M'
start_timer_scan(S, F, t) ==
  LET active_entry == ActiveEntry(S, F.args.task_id)
  IN IF active_entry = None THEN Goto(S, F, "st_insert")
     ELSE IF F.args.task_id \notin DOMAIN S.tasks
       THEN Raise(S, [F EXCEPT !.loc.entry = active_entry], "KeyError")
     ELSE Return(S, F, Response(F, "already_running", Some(F.args.task_id), active_entry, 0,
                                Some(strftime_HM(S.entries[Val(active_entry)].start_time))))

\* Faulty variant of start_timer_insert: the entry is stored under the id
\* issued last instead of a fresh one.
start_timer_insert_reused_id(S, F, t) ==
  LET id == IF S.entry_uuid = 0 THEN 1 ELSE S.entry_uuid
  IN Goto([S EXCEPT !.entry_uuid = id,
                    !.entries = Put(@, id, TimeEntry(id, F.args.task_id, Naive(t), None, None))],
          [F EXCEPT !.loc.entry = Some(id), !.loc.parsed = Naive(t)], "st_return")

\* time_entry = TimeEntry(task_id, start_time = datetime.now());
\* time_entries_storage[time_entry.id] = time_entry
start_timer_insert(S, F, t) ==
  LET id == S.entry_uuid + 1
  IN IF S.entry_uuid >= MaxEntries THEN Blocked(S, F)
     ELSE Goto([S EXCEPT !.entry_uuid = id,
                         !.entries = Put(@, id, TimeEntry(id, F.args.task_id, Naive(t), None, None))],
               [F EXCEPT !.loc.entry = Some(id), !.loc.parsed = Naive(t)], "st_return")

\* the return value reads tasks_storage[task_id].title
start_timer_return(S, F, t) ==
  IF F.args.task_id \notin DOMAIN S.tasks THEN Raise(S, F, "KeyError")
  ELSE Return(S, F, Response(F, "started", Some(F.args.task_id), F.loc.entry, 0,
                             Some(F.loc.parsed)))

\* -------------------------------------------------------------- stop_timer
\* Faulty variant of stop_timer_select: task_id is looked at first.
stop_timer_select_task_first(S, F, t) ==
  IF TruthyId(F.args.task_id)
    THEN LET entry == ActiveEntry(S, Val(F.args.task_id))
         IN IF entry = None
              THEN Return(S, F, Response(F, "no_active_timer", None, None, 0, None))
            ELSE Goto(S, [F EXCEPT !.loc.entry = entry], "sp_check")
  ELSE IF TruthyId(F.args.time_entry_id)
    THEN IF Val(F.args.time_entry_id) \notin DOMAIN S.entries
           THEN Return(S, F, Response(F, "entry_not_found", None, None, 0, None))
         ELSE Goto(S, [F EXCEPT !.loc.entry = F.args.time_entry_id], "sp_check")
  ELSE Return(S, F, Response(F, "missing_selector", None, None, 0, None))

\* args: time_entry_id, task_id (both Optional[str]); selects the entry
stop_timer_select(S, F, t) ==
  IF TruthyId(F.args.time_entry_id)
    THEN IF Val(F.args.time_entry_id) \notin DOMAIN S.entries
           THEN Return(S, F, Response(F, "entry_not_found", None, None, 0, None))
         ELSE Goto(S, [F EXCEPT !.loc.entry = F.args.time_entry_id], "sp_check")
  ELSE IF TruthyId(F.args.task_id)
    THEN LET entry == ActiveEntry(S, Val(F.args.task_id))
         IN IF entry = None
              THEN Return(S, F, Response(F, "no_active_timer", None, None, 0, None))
            ELSE Goto(S, [F EXCEPT !.loc.entry = entry], "sp_check")
  ELSE Return(S, F, Response(F, "missing_selector", None, None, 0, None))

\* Faulty variant of stop_timer_check: a closed entry is stopped again.
stop_timer_check_skipped(S, F, t) == Goto(S, F, "sp_close")

\* if entry.end_time is not None: return already stopped (reads
\* tasks_storage[entry.task_id].title)
stop_timer_check(S, F, t) ==
  LET entry == Obj(S, Val(F.loc.entry))
  IN IF entry.end_time = None THEN Goto(S, F, "sp_close")
     ELSE IF entry.task_id \notin DOMAIN S.tasks THEN Raise(S, F, "KeyError")
     ELSE Return(S, F, Response(F, "already_stopped", Some(entry.task_id), F.loc.entry, 0, None))

\* Faulty variant of stop_timer_close: the entry is closed without a duration.
stop_timer_close_end_only(S, F, t) ==
  LET id == Val(F.loc.entry)
      entry == Obj(S, id)
      duration == t - entry.start_time.secs
      S1 == SetObj(S, id, [entry EXCEPT !.end_time = Some(Naive(t))])
  IN IF entry.start_time.aware THEN Raise(S1, F, "TypeError")
     ELSE Goto(S1, [F EXCEPT !.loc.duration = duration], "sp_task")

\* entry.end_time = datetime.now(); duration = entry.end_time - entry.start_time;
\* entry.duration_minutes = int(duration.total_seconds() / 60)
\* Subtracting an offset-aware start from the naive now raises TypeError, after
\* end_time was assigned.
stop_timer_close(S, F, t) ==
  LET id == Val(F.loc.entry)
      entry == Obj(S, id)
      duration == t - entry.start_time.secs
      S1 == SetObj(S, id, [entry EXCEPT !.end_time = Some(Naive(t))])
      S2 == SetObj(S, id, [entry EXCEPT !.end_time = Some(Naive(t)),
                                        !.duration_minutes = Some(TruncMinutes(duration))])
  IN IF entry.start_time.aware THEN Raise(S1, F, "TypeError")
     ELSE Goto(S2, [F EXCEPT !.loc.duration = duration], "sp_task")

\* task = tasks_storage[entry.task_id]; task.actual_hours (+)= duration.total_seconds() / 3600
stop_timer_task(S, F, t) ==
  LET entry == Obj(S, Val(F.loc.entry))
      tid == entry.task_id
      task == S.tasks[tid]
      hours == IF TruthyNum(task.actual_hours) THEN Val(task.actual_hours) + F.loc.duration
               ELSE F.loc.duration
  IN IF tid \notin DOMAIN S.tasks THEN Raise(S, F, "KeyError")
     ELSE Return([S EXCEPT !.tasks[tid].actual_hours = Some(hours)], F,
                 Response(F, "stopped", Some(tid), F.loc.entry, 0, None))

\* ---------------------------------------------------------------- log_time
\* args: task_id, duration_minutes (int), start_time (Optional[str])
log_time_check(S, F, t) ==
  LET parsed == FromIsoFormat(Val(F.args.start_time))
  IN IF F.args.task_id \notin DOMAIN S.tasks
       THEN Return(S, F, Response(F, "not_found", None, None, 0, None))
     ELSE IF ~TruthyStr(F.args.start_time) THEN Goto(S, [F EXCEPT !.loc.parsed = Naive(t)], "lg_insert")
     ELSE IF ~parsed.ok THEN Return(S, F, Response(F, "invalid_date", None, None, 0, None))
     ELSE Goto(S, [F EXCEPT !.loc.parsed = parsed.dt], "lg_insert")

\* Faulty variant of log_time_insert: logging time also closes the task's
\* running timer.
log_time_insert_stops_timer(S, F, t) ==
  LET id == S.entry_uuid + 1
      d == F.args.duration_minutes
      active == ActiveEntry(S, F.args.task_id)
      S1 == IF active = None THEN S
            ELSE [S EXCEPT !.entries[Val(active)].end_time = Some(Naive(t))]
  IN IF S.entry_uuid >= MaxEntries THEN Blocked(S, F)
     ELSE Goto([S1 EXCEPT !.entry_uuid = id,
                          !.entries = Put(@, id, TimeEntry(id, F.args.task_id, F.loc.parsed,
                                                           Some(PlusMinutes(F.loc.parsed, d)), Some(d)))],
               [F EXCEPT !.loc.entry = Some(id)], "lg_task")

\* Faulty variant of log_time_insert: the new entry takes the id issued last
\* and replaces the entry stored under it.
log_time_insert_reused_id(S, F, t) ==
  LET id == IF S.entry_uuid = 0 THEN 1 ELSE S.entry_uuid
      d == F.args.duration_minutes
  IN IF S.entry_uuid >= MaxEntries THEN Blocked(S, F)
     ELSE Goto([S EXCEPT !.entry_uuid = id,
                         !.entries = Put(@, id, TimeEntry(id, F.args.task_id, F.loc.parsed,
                                                          Some(PlusMinutes(F.loc.parsed, d)), Some(d)))],
               [F EXCEPT !.loc.entry = Some(id)], "lg_task")

\* time_entry = TimeEntry(task_id, start, start + timedelta(minutes = d), d);
\* time_entries_storage[time_entry.id] = time_entry
log_time_insert(S, F, t) ==
  LET id == S.entry_uuid + 1
      d == F.args.duration_minutes
  IN IF S.entry_uuid >= MaxEntries THEN Blocked(S, F)
     ELSE Goto([S EXCEPT !.entry_uuid = id,
                         !.entries = Put(@, id, TimeEntry(id, F.args.task_id, F.loc.parsed,
                                                          Some(PlusMinutes(F.loc.parsed, d)), Some(d)))],
               [F EXCEPT !.loc.entry = Some(id)], "lg_task")

\* Faulty variant of log_time_task: overwrites actual_hours instead of adding.
log_time_task_overwrite(S, F, t) ==
  LET tid == F.args.task_id
  IN IF tid \notin DOMAIN S.tasks THEN Raise(S, F, "KeyError")
     ELSE Return([S EXCEPT !.tasks[tid].actual_hours = Some(60 * F.args.duration_minutes)], F,
                 Response(F, "logged", Some(tid), F.loc.entry, 0, None))

\* task = tasks_storage[task_id]; task.actual_hours (+)= duration_minutes / 60
log_time_task(S, F, t) ==
  LET tid == F.args.task_id
      task == S.tasks[tid]
      add == 60 * F.args.duration_minutes
      hours == IF TruthyNum(task.actual_hours) THEN Val(task.actual_hours) + add ELSE add
  IN IF tid \notin DOMAIN S.tasks THEN Raise(S, F, "KeyError")
     ELSE Return([S EXCEPT !.tasks[tid].actual_hours = Some(hours)], F,
                 Response(F, "logged", Some(tid), F.loc.entry, 0, None))

\* ------------------------------------------------------------ one step
\* The statement of the handler that the frame's pc points at.
Step(S, F, t) ==
  CASE F.pc = "ct"         -> create_task_step(S, F, t)
    [] F.pc = "ut"         -> update_task_step(S, F, t)
    [] F.pc = "cp"         -> create_project_step(S, F, t)
    [] F.pc = "ls"         -> list_tasks_step(S, F, t)
    [] F.pc = "an"         -> get_time_analytics_step(S, F, t)
    [] F.pc = "dl_check"   -> delete_task_check(S, F, t)
    [] F.pc = "dl_pop"     -> delete_task_pop(S, F, t)
    [] F.pc = "dl_collect" -> delete_task_collect(S, F, t)
    [] F.pc = "dl_remove"  -> delete_task_remove(S, F, t)
    [] F.pc = "st_check"   -> start_timer_check(S, F, t)
    [] F.pc = "st_scan"    -> start_timer_scan(S, F, t)
    [] F.pc = "st_insert"  -> start_timer_insert(S, F, t)
    [] F.pc = "st_return"  -> start_timer_return(S, F, t)
    [] F.pc = "sp_select"  -> stop_timer_select(S, F, t)
    [] F.pc = "sp_check"   -> stop_timer_check(S, F, t)
    [] F.pc = "sp_close"   -> stop_timer_close(S, F, t)
    [] F.pc = "sp_task"    -> stop_timer_task(S, F, t)
    [] F.pc = "lg_check"   -> log_time_check(S, F, t)
    [] F.pc = "lg_insert"  -> log_time_insert(S, F, t)
    [] F.pc = "lg_task"    -> log_time_task(S, F, t)
    [] OTHER               -> [S |-> S, F |-> F]

\* A whole call, run to its return without another call in between.
RECURSIVE Run(_, _, _)
Run(S, F, t) ==
  IF F.pc \in {"done", "blocked", "idle"} THEN [S |-> S, F |-> F]
  ELSE LET n == Step(S, F, t) IN Run(n.S, n.F, t)

\* ---------------------------------------------------------------- actions

\* Popped TimeEntry objects live on only while a running call refers to them.
Collect(det, frs) ==
  [id \in {k \in DOMAIN det : \E p \in Procs : frs[p].pc # "idle" /\ frs[p].loc.entry = Some(k)}
     |-> det[id]]

Install(S, frs) ==
  /\ tasks_storage' = S.tasks
  /\ time_entries_storage' = S.entries
  /\ task_uuid' = S.task_uuid
  /\ entry_uuid' = S.entry_uuid
  /\ projects_storage' = S.projects
  /\ project_uuid' = S.project_uuid
  /\ detached' = Collect(S.detached, frs)

\* What the call F0 returns when it is executed in the current state.
Outcome(F0) == Run(Store, F0, now).F.ret
\* The store the call F0 leaves behind when it is executed in the current state.
Effect(F0) == Run(Store, F0, now).S

\* No call is in progress.
Quiescent == \A p \in Procs : frames[p].pc = "idle"

\* A handler executed from call to return with nothing in between.
Call(F0) ==
  LET r == Run(Store, F0, now)
  IN /\ r.F.pc = "done"
     /\ Install(r.S, frames)
     /\ UNCHANGED <<now, frames>>

create_task_frame(title, priority, category, due_date, project_id, assignee) ==
  Frame("create_task", "ct", [title |-> title, priority |-> priority, category |-> category,
                              due_date |-> due_date, project_id |-> project_id,
                              assignee |-> assignee])
update_task_frame(task_id, title, priority, status, category, due_date, actual_hours, assignee) ==
  Frame("update_task", "ut", [task_id |-> task_id, title |-> title, priority |-> priority,
                              status |-> status, category |-> category, due_date |-> due_date,
                              actual_hours |-> actual_hours, assignee |-> assignee])
create_project_frame(name) == Frame("create_project", "cp", [name |-> name])
list_tasks_frame(status, priority, category, assignee, project_id, limit) ==
  Frame("list_tasks", "ls", [status |-> status, priority |-> priority, category |-> category,
                             assignee |-> assignee, project_id |-> project_id, limit |-> limit])
delete_task_frame(task_id) == Frame("delete_task", "dl_check", [task_id |-> task_id])
start_timer_frame(task_id) == Frame("start_timer", "st_check", [task_id |-> task_id])
stop_timer_frame(time_entry_id, task_id) ==
  Frame("stop_timer", "sp_select", [time_entry_id |-> time_entry_id, task_id |-> task_id])
log_time_frame(task_id, duration_minutes, start_time) ==
  Frame("log_time", "lg_check", [task_id |-> task_id, duration_minutes |-> duration_minutes,
                                 start_time |-> start_time])

\* get_time_analytics in a session whose configuration sets work_hours_per_day
get_time_analytics_session_frame(days, category, project_id, work_hours_per_day) ==
  Frame("get_time_analytics", "an", [days |-> days, category |-> category,
                                     project_id |-> project_id,
                                     work_hours_per_day |-> work_hours_per_day])
\* get_time_analytics in a session with the default configuration
get_time_analytics_frame(days, category, project_id) ==
  get_time_analytics_session_frame(days, category, project_id, default_work_hours_per_day)

create_task(title, priority, category, due_date, project_id, assignee) ==
  /\ Quiescent
  /\ Call(create_task_frame(title, priority, category, due_date, project_id, assignee))

update_task(task_id, title, priority, status, category, due_date, actual_hours, assignee) ==
  /\ Quiescent
  /\ Call(update_task_frame(task_id, title, priority, status, category, due_date, actual_hours,
                            assignee))

create_project(name) ==
  /\ Quiescent
  /\ Call(create_project_frame(name))

list_tasks(status, priority, category, assignee, project_id, limit) ==
  /\ Quiescent
  /\ Call(list_tasks_frame(status, priority, category, assignee, project_id, limit))

delete_task(task_id) ==
  /\ Quiescent
  /\ Call(delete_task_frame(task_id))

start_timer(task_id) ==
  /\ Quiescent
  /\ Call(start_timer_frame(task_id))

stop_timer(time_entry_id, task_id) ==
  /\ Quiescent
  /\ Call(stop_timer_frame(time_entry_id, task_id))

log_time(task_id, duration_minutes, start_time) ==
  /\ Quiescent
  /\ Call(log_time_frame(task_id, duration_minutes, start_time))

\* The reading of the clock when the server starts: 2024-01-02T00:00:00.
Epoch == 24 * 3600

\* Wall-clock time passes between two readings of datetime.now().
Tick ==
  /\ \E d \in Deltas : now + d <= Epoch + MaxTicks * d /\ now' = now + d
  /\ UNCHANGED <<tasks_storage, time_entries_storage, task_uuid, entry_uuid, projects_storage,
                 project_uuid, detached, frames>>

TaskIds == 1..MaxTasks
EntryIds == 1..MaxEntries
OptTaskIds == {None} \cup {Some(i) : i \in TaskIds}
OptEntryIds == {None} \cup {Some(i) : i \in EntryIds}

Init ==
  /\ tasks_storage = EmptyDict
  /\ time_entries_storage = EmptyDict
  /\ task_uuid = 0
  /\ entry_uuid = 0
  /\ projects_storage = EmptyDict
  /\ project_uuid = 0
  /\ detached = EmptyDict
  /\ now = Epoch
  /\ frames = [p \in Procs |-> IdleFrame]

NextTimer ==
  \/ \E title \in Titles, due \in DueDateArgs : create_task(title, None, None, due, None, None)
  \/ \E id \in TaskIds : delete_task(id)
  \/ \E id \in TaskIds : start_timer(id)
  \/ \E e \in OptEntryIds, id \in OptTaskIds : stop_timer(e, id)
  \/ \E id \in TaskIds, d \in DurationArgs, s \in StartTimeArgs : log_time(id, d, s)
  \/ Tick

Next ==
  \/ NextTimer
  \/ \E id \in TaskIds, title \in TitleArgs, due \in DueDateArgs, h \in ActualHoursArgs :
       update_task(id, title, None, None, None, due, h, None)

\* Handlers executed one at a time.
Spec == Init /\ [][Next]_vars
\* The same, with no update_task call.
SpecTimer == Init /\ [][NextTimer]_vars

\* Tasks, projects and time entries together; the clock stands still.
NextStore ==
  \/ \E title \in Titles, due \in {None} \cup MalformedArgs :
       create_task(title, None, None, due, None, None)
  \/ \E name \in ProjectNames : create_project(name)
  \/ \E id \in TaskIds, st \in StatusArgs, due \in DueDateArgs, h \in ActualHoursArgs :
       update_task(id, None, None, st, None, due, h, None)
  \/ \E id \in TaskIds : delete_task(id)
  \/ \E id \in TaskIds : start_timer(id)
  \/ \E e \in OptEntryIds, id \in OptTaskIds : stop_timer(e, id)
  \/ \E id \in TaskIds, s \in StartTimeArgs \cup MalformedArgs : log_time(id, 45, s)

SpecStore == Init /\ [][NextStore]_vars

get_time_analytics(days, category, project_id, work_hours_per_day) ==
  /\ Quiescent
  /\ Call(get_time_analytics_session_frame(days, category, project_id, work_hours_per_day))

\* Time is tracked and logged on tasks of two categories and analysed; the
\* clock stands still.
NextAnalytics ==
  \/ \E title \in Titles, c \in TrackedCategories : create_task(title, None, c, None, None, None)
  \/ \E id \in TaskIds : delete_task(id)
  \/ \E id \in TaskIds : start_timer(id)
  \/ \E id \in TaskIds : stop_timer(None, Some(id))
  \/ \E id \in TaskIds, d \in LoggedDurations, s \in LoggedStartTimes : log_time(id, d, s)
  \/ \E days \in DaysArgs, c \in {None} \cup TrackedCategories, w \in WorkHoursArgs :
       get_time_analytics(days, c, None, w)

SpecAnalytics == Init /\ [][NextAnalytics]_vars

\* Tasks that differ in priority, status, category, due date, assignee and
\* project are created, completed, deleted and listed.
NextList ==
  \/ \E title \in Titles, p \in PriorityArgs, c \in CategoryArgs, due \in ListDueDateArgs,
        proj \in ProjectIdArgs, a \in NewAssigneeArgs :
       create_task(title, p, c, due, proj, a)
  \/ \E id \in TaskIds, st \in StatusArgs :
       update_task(id, None, None, st, None, None, None, None)
  \/ \E id \in TaskIds : delete_task(id)
  \/ \E a \in AssigneeArgs, n \in LimitArgs : list_tasks(None, None, None, a, None, n)

SpecList == Init /\ [][NextList]_vars

\* -------------------------------------------------- interleaved execution
\* Caller p's call takes its next step.
Advance(p, F) ==
  LET r == Step(Store, F, now)
      frs == [frames EXCEPT ![p] = IF r.F.pc = "done" THEN IdleFrame ELSE r.F]
  IN /\ r.F.pc # "blocked"
     /\ Install(r.S, frs)
     /\ frames' = frs
     /\ UNCHANGED now

\* Caller p invokes a handler: its first statement runs.
invoke_delete_task(p, task_id) ==
  /\ frames[p].pc = "idle"
  /\ Advance(p, delete_task_frame(task_id))

invoke_start_timer(p, task_id) ==
  /\ frames[p].pc = "idle"
  /\ Advance(p, start_timer_frame(task_id))

invoke_stop_timer(p, time_entry_id, task_id) ==
  /\ frames[p].pc = "idle"
  /\ Advance(p, stop_timer_frame(time_entry_id, task_id))

invoke_log_time(p, task_id, duration_minutes, start_time) ==
  /\ frames[p].pc = "idle"
  /\ Advance(p, log_time_frame(task_id, duration_minutes, start_time))

\* Caller p's handler runs its next statement.
Proceed(p) ==
  /\ frames[p].pc # "idle"
  /\ Advance(p, frames[p])

\* create_task is a single store write; the other handlers run statement by
\* statement.  The clock does not advance while the calls race.
NextConc ==
  \/ \E title \in Titles : create_task(title, None, None, None, None, None)
  \/ \E p \in Procs, id \in TaskIds : invoke_delete_task(p, id)
  \/ \E p \in Procs, id \in TaskIds : invoke_start_timer(p, id)
  \/ \E p \in Procs, id \in TaskIds : invoke_stop_timer(p, None, Some(id))
  \/ \E p \in Procs, id \in TaskIds : invoke_log_time(p, id, 45, None)
  \/ \E p \in Procs : Proceed(p)

\* The handlers take no lock: the statements of two calls interleave.
SpecConc == Init /\ [][NextConc]_vars

\* ================================================================= claims
\* Helpers of the statements below.
EntriesOf(task_id) ==
  {e \in DOMAIN time_entries_storage : time_entries_storage[e].task_id = task_id}
OpenEntriesOf(task_id) ==
  {e \in EntriesOf(task_id) : time_entries_storage[e].end_time = None}
ClosedEntriesOf(task_id) ==
  {e \in EntriesOf(task_id) : time_entries_storage[e].end_time # None}
\* Ids that were issued and are no longer stored.
RemovedEntryIds == (1..entry_uuid) \ DOMAIN time_entries_storage
RemovedTaskIds == (1..task_uuid) \ DOMAIN tasks_storage
Elapsed(entry) == Val(entry.end_time).secs - entry.start_time.secs
Abs(x) == IF x >= 0 THEN x ELSE -x

RECURSIVE SumDurations(_)
SumDurations(E) ==
  IF E = {} THEN 0
  ELSE LET e == CHOOSE x \in E : TRUE
       IN Val(time_entries_storage[e].duration_minutes) + SumDurations(E \ {e})

\* C1: in every state reached by handlers executed one at a time, each task
\* has at most one time entry whose end_time is unset.
C1_AtMostOneOpenTimer ==
  \A t \in TaskIds : Cardinality(OpenEntriesOf(t)) <= 1

\* A task is Running, also holds a closed entry, and a further start_timer on
\* it is answered "already running".
C1_Witness ==
  \E t \in DOMAIN tasks_storage :
    /\ Cardinality(OpenEntriesOf(t)) = 1
    /\ ClosedEntriesOf(t) # {}
    /\ Outcome(start_timer_frame(t)).out = "already_running"

\* C2: when start_timer calls interleave, a call inserts its open entry only
\* while the task has no open entry, so two calls on the same Idle task never
\* both create one.
C2_ConcurrentStartExclusive ==
  [][\A p \in Procs :
       (frames[p].pc = "st_insert" /\ frames'[p].pc = "st_return")
         => OpenEntriesOf(frames[p].args.task_id) = {}]_vars

\* C3: when delete_task interleaves with start_timer, stop_timer or log_time,
\* no time entry of a removed task stays stored once the delete has finished,
\* and no start_timer or stop_timer call looks up a task that is gone.
C3_DeleteAtomicWithTimers ==
  /\ (\A p \in Procs : frames[p].op # "delete_task")
       => \A e \in DOMAIN time_entries_storage :
            time_entries_storage[e].task_id \in DOMAIN tasks_storage
  /\ \A p \in Procs :
       frames[p].op \in {"start_timer", "stop_timer"}
         => Step(Store, frames[p], now).F.ret.out # "KeyError"

\* C4: with handlers executed one at a time, every stored time entry's
\* task_id is the id of a stored task.
C4_EntriesReferenceStoredTasks ==
  \A e \in DOMAIN time_entries_storage :
    time_entries_storage[e].task_id \in DOMAIN tasks_storage

\* A task and a time entry have been deleted while an open entry of another
\* task is still stored.
C4_Witness ==
  /\ RemovedTaskIds # {}
  /\ RemovedEntryIds # {}
  /\ \E t \in DOMAIN tasks_storage : OpenEntriesOf(t) # {}

\* C5: delete_task on a stored task with N time entries removes exactly those
\* N entries, reports N and leaves every other entry as it was; from then on
\* stop_timer with a removed entry id reports that the entry is not found.
C5_DeleteCascade ==
  /\ [][\A t \in DOMAIN tasks_storage :
          delete_task(t) =>
            /\ DOMAIN time_entries_storage' = DOMAIN time_entries_storage \ EntriesOf(t)
            /\ \A e \in DOMAIN time_entries_storage' :
                 time_entries_storage'[e] = time_entries_storage[e]
            /\ Outcome(delete_task_frame(t)).out = "deleted"
            /\ Outcome(delete_task_frame(t)).removed = Cardinality(EntriesOf(t))]_vars
  /\ [](\A e \in RemovedEntryIds, t \in OptTaskIds :
          /\ Outcome(stop_timer_frame(Some(e), t)).out = "entry_not_found"
          /\ Effect(stop_timer_frame(Some(e), t)) = Store)

\* An entry was removed with its task, stop_timer on its id reports not found,
\* and a closed entry of another task is still stored.
C5_Witness ==
  /\ RemovedTaskIds # {}
  /\ \E e \in RemovedEntryIds :
       Outcome(stop_timer_frame(Some(e), None)).out = "entry_not_found"
  /\ \E t \in DOMAIN tasks_storage : ClosedEntriesOf(t) # {}

\* C6: when stop_timer closes a task's open entry and start_timer is called
\* next on that task (at once or after the clock has advanced), the new open
\* entry gets an id that no stored entry has, the closed entry stays stored
\* as it was, and the new start_time is not before the closed end_time.
C6_StopThenStartFreshEntry ==
  \A e \in OptEntryIds, x \in OptTaskIds, d \in {0} \cup Deltas :
    LET stop == Run(Store, stop_timer_frame(e, x), now)
        c == Val(stop.F.ret.entry_id)
        start == Run(stop.S, start_timer_frame(Val(stop.F.ret.task_id)), now + d)
        n == Val(start.F.ret.entry_id)
    IN (stop.F.ret.out = "stopped" /\ start.F.pc = "done") =>
         /\ start.F.ret.out = "started"
         /\ n \notin DOMAIN stop.S.entries
         /\ DOMAIN start.S.entries = DOMAIN stop.S.entries \cup {n}
         /\ \A k \in DOMAIN stop.S.entries : start.S.entries[k] = stop.S.entries[k]
         /\ start.S.entries[n].end_time = None
         /\ start.S.entries[n].start_time.secs >= Val(stop.S.entries[c].end_time).secs

\* A task holds an entry that stop_timer closed after 45 seconds and a later
\* open entry with another id that starts no earlier than the first one ended.
C6_Witness ==
  \E t \in DOMAIN tasks_storage :
    \E c \in ClosedEntriesOf(t), n \in OpenEntriesOf(t) :
      /\ Elapsed(time_entries_storage[c]) = 45
      /\ time_entries_storage[c].duration_minutes = Some(0)
      /\ n # c
      /\ time_entries_storage[n].start_time.secs >= Val(time_entries_storage[c].end_time).secs

\* C7: without update_task, each task's actual_hours is unset with no closed
\* entry, or equals the sum of duration_minutes of its closed entries divided
\* by 60 (actual_hours is kept in units of 1/3600 hour: one minute is 60).
C7_ActualHoursIsSumOfDurations ==
  \A t \in DOMAIN tasks_storage :
    \/ tasks_storage[t].actual_hours = None /\ ClosedEntriesOf(t) = {}
    \/ /\ tasks_storage[t].actual_hours # None
       /\ Val(tasks_storage[t].actual_hours) = 60 * SumDurations(ClosedEntriesOf(t))

\* C8: stop_timer on a stored open entry, selected by its id or by its task,
\* sets end_time to the current time and duration_minutes to the elapsed time
\* truncated down to whole minutes: 90 seconds give 1, less than a minute 0.
C8_StopTruncatesToWholeMinutes ==
  [][\A c \in DOMAIN time_entries_storage, x \in OptTaskIds :
       ( /\ time_entries_storage[c].end_time = None
         /\ \/ stop_timer(Some(c), x)
            \/ x = Some(time_entries_storage[c].task_id) /\ stop_timer(None, x) )
       => LET elapsed == now - time_entries_storage[c].start_time.secs
              closed == time_entries_storage'[c]
              m == Val(closed.duration_minutes)
          IN /\ closed.end_time = Some(Naive(now))
             /\ closed.duration_minutes # None
             /\ 60 * m <= elapsed /\ elapsed < 60 * m + 60
             /\ (elapsed = 90 => m = 1)
             /\ (elapsed < 60 => m = 0)]_vars

\* stop_timer has closed one entry after 90 seconds with duration_minutes = 1
\* and another after 45 seconds with duration_minutes = 0.
C8_Witness ==
  /\ \E c \in DOMAIN time_entries_storage :
       /\ time_entries_storage[c].end_time # None
       /\ Elapsed(time_entries_storage[c]) = 90
       /\ time_entries_storage[c].duration_minutes = Some(1)
  /\ \E c \in DOMAIN time_entries_storage :
       /\ time_entries_storage[c].end_time # None
       /\ Elapsed(time_entries_storage[c]) = 45
       /\ time_entries_storage[c].duration_minutes = Some(0)

\* C9: every time entry whose duration_minutes is set has duration_minutes
\* equal to end_time - start_time in minutes rounded to the nearest whole
\* minute (within half a minute of it), and duration_minutes >= 0.
C9_DurationRoundedNonNegative ==
  \A e \in DOMAIN time_entries_storage :
    LET entry == time_entries_storage[e]
        m == Val(entry.duration_minutes)
    IN entry.duration_minutes # None =>
         /\ entry.end_time # None
         /\ 2 * Abs(60 * m - Elapsed(entry)) <= 60
         /\ m >= 0

\* C10: log_time on a stored task with duration d and start time s (the
\* current time when s is omitted) stores exactly one new entry, closed, with
\* start_time = s, end_time = s + d minutes and duration_minutes = d, changes
\* no other entry, and adds d/60 hours to the task's actual_hours, an unset
\* actual_hours counting as 0; d = 45 on a task without hours gives 0.75 h.
C10_LogTimeStoresClosedEntry ==
  [][\A t \in DOMAIN tasks_storage, d \in DurationArgs, s \in StartTimeArgs :
       (log_time(t, d, s) /\ (s = None \/ FromIsoFormat(Val(s)).ok))
       => LET start == IF s = None THEN Naive(now) ELSE FromIsoFormat(Val(s)).dt
              new == DOMAIN time_entries_storage' \ DOMAIN time_entries_storage
              before == IF tasks_storage[t].actual_hours = None THEN 0
                        ELSE Val(tasks_storage[t].actual_hours)
          IN /\ Cardinality(new) = 1
             /\ DOMAIN time_entries_storage \subseteq DOMAIN time_entries_storage'
             /\ \A k \in DOMAIN time_entries_storage :
                  time_entries_storage'[k] = time_entries_storage[k]
             /\ \A n \in new :
                  /\ time_entries_storage'[n].task_id = t
                  /\ time_entries_storage'[n].start_time = start
                  /\ time_entries_storage'[n].end_time =
                       Some([secs |-> start.secs + 60 * d, aware |-> start.aware])
                  /\ time_entries_storage'[n].duration_minutes = Some(d)
             /\ tasks_storage'[t].actual_hours = Some(before + 60 * d)
             /\ (d = 45 /\ tasks_storage[t].actual_hours = None
                   => tasks_storage'[t].actual_hours = Some(2700))]_vars

\* log_time(45, "2024-01-01T09:00:00Z") has run on a task without hours: the
\* entry ends at 09:45:00Z and the task has 0.75 hours; a second entry was
\* logged on a task that already had hours.
C10_Witness ==
  /\ \E t \in DOMAIN tasks_storage, n \in DOMAIN time_entries_storage :
       /\ time_entries_storage[n] =
            TimeEntry(n, t, [secs |-> 32400, aware |-> TRUE],
                      Some([secs |-> 35100, aware |-> TRUE]), Some(45))
       /\ tasks_storage[t].actual_hours = Some(2700)
  /\ \E t \in DOMAIN tasks_storage : Cardinality(ClosedEntriesOf(t)) = 2

\* The open time entries, each with its id, task and start time.
OpenTimers(entries) ==
  {<<e, entries[e].task_id, entries[e].start_time>> :
     e \in {k \in DOMAIN entries : entries[k].end_time = None}}

\* C11: log_time on a stored task with a parseable (or omitted) start time
\* succeeds whether or not the task has an open entry, and no log_time call
\* changes the timer state: the open entries (id, task_id, start_time) are
\* the same before and after, and every entry stored before is unchanged.
C11_LogTimeKeepsTimerState ==
  [][\A t \in TaskIds, d \in DurationArgs, s \in StartTimeArgs :
       log_time(t, d, s) =>
         /\ OpenTimers(time_entries_storage') = OpenTimers(time_entries_storage)
         /\ \A k \in DOMAIN time_entries_storage :
              /\ k \in DOMAIN time_entries_storage'
              /\ time_entries_storage'[k] = time_entries_storage[k]
         /\ (t \in DOMAIN tasks_storage /\ (s = None \/ FromIsoFormat(Val(s)).ok))
              => Outcome(log_time_frame(t, d, s)).out = "logged"]_vars

\* A task's timer is running and 45 minutes were logged on the task after
\* the timer was started; the timer is still open.
C11_Witness ==
  \E t \in DOMAIN tasks_storage :
    \E o \in OpenEntriesOf(t), c \in ClosedEntriesOf(t) :
      c > o /\ time_entries_storage[c].duration_minutes = Some(45)

\* C12: start_timer on a task that has an open time entry is a no-op: no
\* entry is created, no task and no entry (so not the open entry's
\* start_time) changes, and the response is "already running", naming the
\* open entry and reporting its start time (hour and minute).
C12_StartOnRunningIsNoOp ==
  [][\A t \in DOMAIN tasks_storage :
       (OpenEntriesOf(t) # {} /\ start_timer(t)) =>
         /\ UNCHANGED <<tasks_storage, time_entries_storage, task_uuid, entry_uuid,
                        projects_storage, project_uuid>>
         /\ Outcome(start_timer_frame(t)).out = "already_running"
         /\ \E o \in OpenEntriesOf(t) :
              /\ Outcome(start_timer_frame(t)).entry_id = Some(o)
              /\ Outcome(start_timer_frame(t)).at =
                   Some(strftime_HM(time_entries_storage[o].start_time))]_vars

\* A timer has been running for 90 seconds, since 00:00, and start_timer on
\* its task answers "already running" since 00:00 at 00:01.
C12_Witness ==
  \E t \in DOMAIN tasks_storage :
    \E o \in OpenEntriesOf(t) :
      /\ now = time_entries_storage[o].start_time.secs + 90
      /\ strftime_HM(Naive(now)) = 1
      /\ Outcome(start_timer_frame(t)).out = "already_running"
      /\ Outcome(start_timer_frame(t)).at = Some(0)

\* The task, time-entry and project stores and the id counters are as before.
StoresUnchanged ==
  UNCHANGED <<tasks_storage, time_entries_storage, task_uuid, entry_uuid,
              projects_storage, project_uuid>>

\* C13: stop_timer changes nothing and answers with its error message when
\* time_entry_id selects a closed entry ("already stopped"), when only
\* task_id is given and that task has no open entry ("no active timer"), and
\* when neither selector is given; so a second stop of an entry that
\* stop_timer has just closed, at once or later, adds nothing to actual_hours.
C13_StopErrorsChangeNothing ==
  /\ [][\A e \in OptEntryIds, x \in OptTaskIds :
          stop_timer(e, x) =>
            /\ (e # None /\ Val(e) \in DOMAIN time_entries_storage
                  /\ time_entries_storage[Val(e)].end_time # None)
                 => (StoresUnchanged /\ Outcome(stop_timer_frame(e, x)).out = "already_stopped")
            /\ (e = None /\ x # None /\ OpenEntriesOf(Val(x)) = {})
                 => (StoresUnchanged /\ Outcome(stop_timer_frame(e, x)).out = "no_active_timer")
            /\ (e = None /\ x = None)
                 => (StoresUnchanged /\ Outcome(stop_timer_frame(e, x)).out = "missing_selector")]_vars
  /\ [](\A e \in OptEntryIds, x \in OptTaskIds, d \in {0} \cup Deltas :
          LET first == Run(Store, stop_timer_frame(e, x), now)
              again == Run(first.S, stop_timer_frame(first.F.ret.entry_id, None), now + d)
          IN first.F.ret.out = "stopped" =>
               /\ again.F.ret.out = "already_stopped"
               /\ again.S = first.S)

\* stop_timer closed an entry after 90 seconds (0.025 h on its task); a
\* further stop of that entry is answered "already stopped", and a stop by
\* task id on a second, Idle task "no active timer".
C13_Witness ==
  /\ \E c \in DOMAIN time_entries_storage :
       /\ time_entries_storage[c].duration_minutes = Some(1)
       /\ tasks_storage[time_entries_storage[c].task_id].actual_hours = Some(90)
       /\ Outcome(stop_timer_frame(Some(c), None)).out = "already_stopped"
  /\ \E t \in DOMAIN tasks_storage :
       /\ EntriesOf(t) = {}
       /\ Outcome(stop_timer_frame(None, Some(t))).out = "no_active_timer"

Shown(listing, i) == tasks_storage[listing.tasks[i]]

\* C15: in every list that list_tasks returns, whatever the filters and the
\* limit, a task of greater priority rank stands before every task of smaller
\* rank, whatever their due dates.
C15_ListOrderedByPriority ==
  \A st \in StatusArgs, p \in PriorityArgs, c \in CategoryArgs, a \in AssigneeArgs,
     proj \in ProjectIdArgs, n \in LimitArgs :
    LET listing == Outcome(list_tasks_frame(st, p, c, a, proj, n))
    IN listing.out = "listed" =>
         \A i, j \in 1..Len(listing.tasks) :
           priority_order(Shown(listing, i).priority) > priority_order(Shown(listing, j).priority)
             => i < j

\* The task created second has high priority and the later due date, the
\* first one medium priority; the list shows the second task first.
C15_Witness ==
  /\ DOMAIN tasks_storage = {1, 2}
  /\ tasks_storage[1].priority = "medium" /\ tasks_storage[1].due_date = Some(Naive(32400))
  /\ tasks_storage[2].priority = "high" /\ tasks_storage[2].due_date = Some(Naive(205200))
  /\ Outcome(list_tasks_frame(None, None, None, None, None, 20)).tasks = <<2, 1>>

\* C16: in every list that list_tasks returns, of two tasks of equal priority
\* the one with the earlier due date stands first, and a task without due
\* date stands behind every task of its priority that has one.
C16_DueDateOrderWithinPriority ==
  \A st \in StatusArgs, p \in PriorityArgs, c \in CategoryArgs, a \in AssigneeArgs,
     proj \in ProjectIdArgs, n \in LimitArgs :
    LET listing == Outcome(list_tasks_frame(st, p, c, a, proj, n))
    IN listing.out = "listed" =>
         \A i, j \in 1..Len(listing.tasks) :
           LET A == Shown(listing, i)
               B == Shown(listing, j)
           IN (A.priority = B.priority /\ A.due_date # None) =>
                /\ (B.due_date # None /\ Val(A.due_date).secs < Val(B.due_date).secs) => i < j
                /\ B.due_date = None => i < j

\* The selected tasks in list order, before the limit is applied; ok is
\* FALSE when the sort raises.
Ordered(st, p, c, a, proj) ==
  list_tasks_sort(list_tasks_filter(DictValues(tasks_storage),
                                    list_tasks_frame(st, p, c, a, proj, 0).args))

\* C17: list_tasks with limit n returns the first n tasks of the filtered,
\* ordered list when n > 0 (all of them when there are fewer than n) and
\* nothing when n <= 0, negative n included.
C17_LimitTruncates ==
  \A st \in StatusArgs, p \in PriorityArgs, c \in CategoryArgs, a \in AssigneeArgs,
     proj \in ProjectIdArgs, n \in LimitArgs :
    LET listing == Outcome(list_tasks_frame(st, p, c, a, proj, n))
        ordered == Ordered(st, p, c, a, proj)
        len == Len(ordered.tasks)
    IN ordered.ok =>
         listing.tasks = IF n > 0 THEN Ids(SubSeq(ordered.tasks, 1, IF n < len THEN n ELSE len))
                         ELSE <<>>

\* C18: the tasks list_tasks selects, before it orders and limits them, are
\* exactly the stored tasks whose status, priority, category, assignee and
\* project_id equal the arguments that are supplied (not None); with no
\* argument every stored task is selected.
C18_FilterSelectsMatching ==
  \A st \in StatusArgs, p \in PriorityArgs, c \in CategoryArgs, a \in AssigneeArgs,
     proj \in ProjectIdArgs :
    LET selected == list_tasks_filter(DictValues(tasks_storage),
                                      list_tasks_frame(st, p, c, a, proj, 20).args)
    IN {selected[i].id : i \in 1..Len(selected)} =
         {t \in DOMAIN tasks_storage :
            /\ st # None => tasks_storage[t].status = Val(st)
            /\ p # None => tasks_storage[t].priority = Val(p)
            /\ c # None => tasks_storage[t].category = Val(c)
            /\ a # None => tasks_storage[t].assignee = a
            /\ proj # None => tasks_storage[t].project_id = proj}

\* C19: with no category or project filter, the entries get_time_analytics
\* aggregates for a window of `days` days are exactly the stored closed
\* entries (end_time set) that start at or after now - days and whose task is
\* stored: every such entry, also one of 0 minutes, and no open entry.
C19_WindowIsClosedEntriesSince ==
  \A days \in DaysArgs :
    LET window == collect_window(Store, get_time_analytics_frame(days, None, None).args, now)
    IN window.ok =>
         window.entries =
           {e \in DOMAIN time_entries_storage :
              /\ time_entries_storage[e].end_time # None
              /\ time_entries_storage[e].start_time.secs >= now - days * 24 * 3600
              /\ time_entries_storage[e].task_id \in DOMAIN tasks_storage}

\* C20: for the entries of a window of one day or more, get_time_analytics
\* reports per
\* category the sum of duration_minutes of the entries whose task has that
\* category, these sums add up to the window total, each percentage is the
\* category's minutes times 100 over the total (120 and 30 minutes make 80%
\* and 20% of 150), and with a total of zero no percentage is computed.
C20_CategoryBreakdown ==
  \A days \in DaysArgs \ {0}, c \in {None} \cup TrackedCategories :
    LET args == get_time_analytics_frame(days, c, None).args
        report == Outcome(get_time_analytics_frame(days, c, None))
        window == collect_window(Store, args, now)
        InCategory(k) ==
          {e \in window.entries : tasks_storage[time_entries_storage[e].task_id].category = k}
        total == SumDurations(window.entries)
    IN window.ok =>
         /\ total = 0 => report.out # "ZeroDivisionError"
         /\ (window.entries # {} /\ total # 0) =>
              /\ report.out = "report"
              /\ report.total_minutes = total
              /\ DOMAIN report.category_stats = {k \in {"work", "personal"} : InCategory(k) # {}}
              /\ \A k \in DOMAIN report.category_stats :
                   /\ report.category_stats[k] = SumDurations(InCategory(k))
                   /\ report.percentage[k].num = 100 * report.category_stats[k]
                   /\ report.percentage[k].den = total
              /\ (report.category_stats = [k \in {"work", "personal"} |->
                                             IF k = "work" THEN 120 ELSE 30])
                   => /\ report.total_minutes = 150
                      /\ report.percentage["work"].num = 80 * report.percentage["work"].den
                      /\ report.percentage["personal"].num = 20 * report.percentage["personal"].den

\* C21: in every report of get_time_analytics for days > 0 in a session with
\* work_hours_per_day > 0, the productivity ratio is (total window minutes /
\* 60) / (work_hours_per_day * days) * 100; 480 minutes in 7 days at 8 hours
\* per day are printed as 14.3 percent.
C21_ProductivityRatio ==
  \A days \in DaysArgs, c \in {None} \cup TrackedCategories, w \in WorkHoursArgs :
    LET report == Outcome(get_time_analytics_session_frame(days, c, None, w))
        ratio == report.productivity_ratio
    IN (report.out = "report" /\ days > 0 /\ w > 0) =>
         /\ ratio.den > 0
         /\ ratio.num * (60 * w * days) = (100 * report.total_minutes) * ratio.den
         /\ (report.total_minutes = 480 /\ days = 7 /\ w = 8) => Format1f(ratio) = 143

\* 480 minutes were logged a day ago; the report for the last 7 days at 8
\* hours per day totals 480 minutes and prints a ratio of 14.3 percent.
C21_Witness ==
  LET report == Outcome(get_time_analytics_session_frame(7, None, None, 8))
  IN /\ report.out = "report"
     /\ report.total_minutes = 480
     /\ \E e \in report.entries : time_entries_storage[e].start_time = Naive(32400)
     /\ Format1f(report.productivity_ratio) = 143

\* C22: when work_hours_per_day * days is not positive (days <= 0 or
\* work_hours_per_day <= 0) and the window holds entries to report on,
\* get_time_analytics answers with an invalid-argument error, not with a
\* report that carries a productivity ratio.
C22_NonPositiveDivisorRejected ==
  \A days \in DaysArgs, c \in {None} \cup TrackedCategories, w \in WorkHoursArgs :
    LET call == get_time_analytics_session_frame(days, c, None, w)
        window == collect_window(Store, call.args, now)
    IN (window.ok /\ window.entries # {} /\ (days <= 0 \/ w <= 0)) =>
         Outcome(call).out = "invalid_argument"

\* C23: log_time with a negative duration_minutes on a stored task answers
\* with an invalid-argument error, stores no time entry and leaves the
\* task's actual_hours (and the rest of the stores) unchanged.
C23_NegativeDurationRejected ==
  [][\A t \in DOMAIN tasks_storage, d \in DurationArgs, s \in StartTimeArgs :
       (d < 0 /\ log_time(t, d, s)) =>
         /\ Outcome(log_time_frame(t, d, s)).out \in {"invalid_argument", "invalid_date"}
         /\ StoresUnchanged]_vars

\* C24: update_task on a stored task with a malformed due_date string next
\* to other fields returns the invalid-date error and applies none of them:
\* the stored task, its status, actual_hours and updated_at included, is as
\* it was before the call.
C24_MalformedDueDateAppliesNothing ==
  [][\A t \in DOMAIN tasks_storage, st \in StatusArgs, h \in ActualHoursArgs :
       update_task(t, None, None, st, None, Some("not-a-date"), h, None) =>
         /\ Outcome(update_task_frame(t, None, None, st, None, Some("not-a-date"), h, None)).out
              = "invalid_date"
         /\ tasks_storage'[t] = tasks_storage[t]]_vars

\* Exceptions that no handler catches.
Unhandled == {"TypeError", "ZeroDivisionError", "KeyError"}

\* C25: in every reachable state each handler, whatever its arguments,
\* returns a result or an error message; none ends with an exception it does
\* not catch, get_time_analytics after log_time with a 'Z' start_time and
\* get_time_analytics with days = 0 included.
C25_NoUnhandledFailure ==
  /\ \A days \in DaysArgs, c \in {None} \cup TrackedCategories, w \in WorkHoursArgs :
       Outcome(get_time_analytics_session_frame(days, c, None, w)).out \notin Unhandled
  /\ \A a \in AssigneeArgs, n \in LimitArgs :
       Outcome(list_tasks_frame(None, None, None, a, None, n)).out \notin Unhandled
  /\ \A c \in TrackedCategories, due \in DueDateArgs :
       Outcome(create_task_frame("Write spec", None, c, due, None, None)).out \notin Unhandled
  /\ \A t \in TaskIds :
       /\ \A st \in StatusArgs, due \in DueDateArgs :
            Outcome(update_task_frame(t, None, None, st, None, due, None, None)).out
              \notin Unhandled
       /\ Outcome(delete_task_frame(t)).out \notin Unhandled
       /\ Outcome(start_timer_frame(t)).out \notin Unhandled
       /\ \A d \in LoggedDurations, s \in LoggedStartTimes :
            Outcome(log_time_frame(t, d, s)).out \notin Unhandled
  /\ \A e \in OptEntryIds, x \in OptTaskIds :
       Outcome(stop_timer_frame(e, x)).out \notin Unhandled

\* C26: every operation that changes a stored task (update_task, stop_timer
\* and log_time included) leaves the task's updated_at at or after the time of
\* the invocation.
C26_ChangeSetsUpdatedAt ==
  [][\A t \in DOMAIN tasks_storage \cap DOMAIN tasks_storage' :
       tasks_storage'[t] # tasks_storage[t] =>
         tasks_storage'[t].updated_at.secs >= now]_vars

\* C27: create_task with a due_date that is not an ISO-8601 date-time, and
\* log_time with a start_time that is not one, return the malformed-input
\* error and leave every store as it was.
C27_MalformedInputRejected ==
  [][/\ \A title \in Titles, due \in MalformedArgs :
          create_task(title, None, None, due, None, None) =>
            /\ Outcome(create_task_frame(title, None, None, due, None, None)).out
                 = "invalid_date"
            /\ StoresUnchanged
     /\ \A t \in DOMAIN tasks_storage, s \in MalformedArgs :
          log_time(t, 45, s) =>
            /\ Outcome(log_time_frame(t, 45, s)).out = "invalid_date"
            /\ StoresUnchanged]_vars

\* C28: in every reachable state a time entry has duration_minutes set if and
\* only if it has end_time set: an open entry has neither, an entry closed by
\* stop_timer or created by log_time has both.
C28_DurationIffEnd ==
  \A e \in DOMAIN time_entries_storage :
    (time_entries_storage[e].duration_minutes # None)
      <=> (time_entries_storage[e].end_time # None)

\* An entry that stop_timer closed 90 seconds after its start is stored
\* beside an entry of 45 minutes that log_time created.
C28_Witness ==
  \E e1, e2 \in DOMAIN time_entries_storage :
    /\ time_entries_storage[e1].end_time
         = Some(Naive(time_entries_storage[e1].start_time.secs + 90))
    /\ time_entries_storage[e1].duration_minutes = Some(1)
    /\ time_entries_storage[e2].end_time
         = Some(PlusMinutes(time_entries_storage[e2].start_time, 45))
    /\ time_entries_storage[e2].duration_minutes = Some(45)

\* C29: once a time entry is closed, no operation changes its task_id,
\* start_time, end_time or duration_minutes and none reopens it: in every step
\* the entry stays as it is, or delete_task on its task removes it.
C29_ClosedEntriesImmutable ==
  [][\A e \in DOMAIN time_entries_storage :
       time_entries_storage[e].end_time # None =>
         \/ /\ e \in DOMAIN time_entries_storage'
            /\ time_entries_storage'[e] = time_entries_storage[e]
         \/ /\ e \notin DOMAIN time_entries_storage'
            /\ delete_task(time_entries_storage[e].task_id)]_vars

\* A closed entry is still stored, closed, beside a timer that start_timer
\* started after the entry's end.
C29_Witness ==
  \E e1, e2 \in DOMAIN time_entries_storage :
    /\ time_entries_storage[e1].end_time # None
    /\ time_entries_storage[e2].end_time = None
    /\ time_entries_storage[e1].start_time.aware = FALSE
    /\ Val(time_entries_storage[e1].duration_minutes) >= 0
    /\ time_entries_storage[e2].start_time.secs
         > Val(time_entries_storage[e1].end_time).secs

\* C30: when stop_timer is given a time_entry_id of an open entry together
\* with a task_id, the time_entry_id alone selects: that entry is the only
\* one closed and only its own task's actual_hours grows, by the time the
\* entry ran, even when task_id names another task with its own open entry,
\* which stays open.
C30_EntryIdAloneSelects ==
  [][\A e \in DOMAIN time_entries_storage, x \in TaskIds :
       (/\ time_entries_storage[e].end_time = None
        /\ stop_timer(Some(e), Some(x)))
       => LET own == time_entries_storage[e].task_id
              before == IF TruthyNum(tasks_storage[own].actual_hours)
                          THEN Val(tasks_storage[own].actual_hours) ELSE 0
          IN /\ DOMAIN time_entries_storage' = DOMAIN time_entries_storage
             /\ time_entries_storage'[e].end_time = Some(Naive(now))
             /\ \A e2 \in DOMAIN time_entries_storage \ {e} :
                  time_entries_storage'[e2] = time_entries_storage[e2]
             /\ DOMAIN tasks_storage' = DOMAIN tasks_storage
             /\ tasks_storage'[own].actual_hours
                  = Some(before + (now - time_entries_storage[e].start_time.secs))
             /\ \A t2 \in DOMAIN tasks_storage \ {own} :
                  tasks_storage'[t2] = tasks_storage[t2]]_vars

\* Two tasks have a timer running since an earlier time, and stop_timer called
\* with the first timer's id and the second task's id closes the first timer
\* and leaves the second running.
C30_Witness ==
  \E e1, e2 \in DOMAIN time_entries_storage :
    /\ time_entries_storage[e1].end_time = None
    /\ time_entries_storage[e2].end_time = None
    /\ time_entries_storage[e1].task_id # time_entries_storage[e2].task_id
    /\ time_entries_storage[e1].start_time.secs < now
    /\ LET after == Effect(stop_timer_frame(Some(e1), Some(time_entries_storage[e2].task_id)))
       IN /\ after.entries[e1].end_time = Some(Naive(now))
          /\ after.entries[e2].end_time = None

====
